---- MODULE Spec2Model ----
(***************************************************************************)
(* NVMe native multipath (drivers/nvme/host/multipath.c): one namespace    *)
(* head with its sibling list, the cached current path, the requeue list   *)
(* with its spinlock, the requeue work item, and the threads that run      *)
(* nvme_ns_head_make_request, nvme_failover_req, nvme_requeue_work and     *)
(* nvme_mpath_remove_disk against it.                                      *)
(***************************************************************************)
EXTENDS Integers, Sequences, FiniteSets, TLC

\* ---------------------------------------------------------------- bounds
NumPaths == 2
NumBios == 2
NumSubs == 1
NumHeads == 2

Paths == 1..NumPaths
Bios == 1..NumBios
Subs == 1..NumSubs
Heads == 1..NumHeads

\* the kblockd worker that runs head->requeue_work; it calls
\* generic_make_request inline, so it is a routing thread as well
KW == 0
RouteThreads == {KW} \cup Subs

NoPath == 0
NoBio == 0
HeadDisk == 0

\* owners of head->requeue_lock other than the routing threads
LockFree == -1
FoThread == -2

CtrlStates == {"LIVE", "RESETTING"}

\* ------------------------------------------------- NVMe status codes
\* the case labels of nvme_req_needs_failover with their values in
\* include/linux/nvme.h; NVME_SC_ABORT_REQ stands for the codes that are no
\* case label, NVME_SC_DNR for the bits of the status word above 0x7ff
NVME_SC_INVALID_OPCODE == 1
NVME_SC_INVALID_FIELD == 2
NVME_SC_ABORT_REQ == 7
NVME_SC_INVALID_NS == 11
NVME_SC_LBA_RANGE == 128
NVME_SC_CAP_EXCEEDED == 129
NVME_SC_RESERVATION_CONFLICT == 131
NVME_SC_BAD_ATTRIBUTES == 384
NVME_SC_INVALID_PI == 385
NVME_SC_READ_ONLY == 386
NVME_SC_ONCS_NOT_SUPPORTED == 387
NVME_SC_WRITE_FAULT == 640
NVME_SC_READ_ERROR == 641
NVME_SC_GUARD_CHECK == 642
NVME_SC_APPTAG_CHECK == 643
NVME_SC_REFTAG_CHECK == 644
NVME_SC_COMPARE_FAILED == 645
NVME_SC_ACCESS_DENIED == 646
NVME_SC_UNWRITTEN_BLOCK == 647
NVME_SC_DNR == 16384
\* status & 0x7ff is status % 2048
StatusMask == 2048

VARIABLES
    list,           \* head->list: the siblings, in list order
    ctrl_state,     \* ns->ctrl->state of every path
    current_path,   \* head->current_path (NoPath = NULL)
    requeue_list,   \* head->requeue_list
    requeue_lock,   \* holder of head->requeue_lock
    work_pending,   \* head->requeue_work is queued on kblockd
    qstate,         \* head->disk->queue: "up", "dying" or "released"
    pc,             \* position of every routing thread
    bio,            \* the bio a routing thread is handling
    ns,             \* the path nvme_find_path returned to the thread
    next,           \* nvme_requeue_work: the private list after the swap
    rqs,            \* requests in flight on the paths' queues
    bi_opf,         \* bio->bi_opf & REQ_NVME_MPATH
    bi_disk,        \* bio->bi_disk: HeadDisk or the path's disk
    bi_status,      \* "none" until bio_endio, then the status it ended with
    unsent,         \* bios the callers have not submitted yet
    fo_pc,          \* position of the completion context
    fo_req,         \* nvme_failover_req: req
    td_pc,          \* position of nvme_mpath_remove_disk
    flush_wait,     \* flush_work: the queued instance it waits for
    readers,        \* threads inside srcu_read_lock(&head->srcu)
    srcu_wait,      \* readers a path removal still has to wait for
    swapped,        \* history: the list the running pass took at its swap
    resubmitted,    \* history: what the running pass has resubmitted
    credits,        \* history: enqueues minus resubmissions per bio
    td_snapshot,    \* history: requeue_list when remove_disk was called
    find_kind,      \* history: how the thread's nvme_find_path call ended
    cl_flags,       \* classifier run: req->cmd_flags & REQ_NVME_MPATH
    cl_status,      \* classifier run: nvme_req(req)->status
    cl_ret,         \* classifier run: "none" until called, then the result
    ctrl_namespaces,\* kick run: per controller, the heads of ctrl->namespaces
    head_disk,      \* kick run: head->disk is set
    head_work,      \* kick run: head->requeue_work is queued
    kick_pc,        \* kick run: the controller being kicked (NoPath = none)
    sel_ns,         \* selector run: what the last nvme_find_path returned
    sel_kind,       \* selector run: how that call ended ("none": no call)
    sel_seq,        \* selector run: flips with every nvme_find_path call
    poll_ns,        \* selector run: the path the last poll called poll_fn on
    poll_seq        \* selector run: flips with every nvme_ns_head_poll call

vars == <<list, ctrl_state, current_path, requeue_list, requeue_lock,
          work_pending, qstate, pc, bio, ns, next, rqs, bi_opf, bi_disk,
          bi_status, unsent, fo_pc, fo_req, td_pc, flush_wait,
          readers, srcu_wait, swapped, resubmitted, credits, td_snapshot,
          find_kind, cl_flags, cl_status, cl_ret,
          ctrl_namespaces, head_disk, head_work, kick_pc,
          sel_ns, sel_kind, sel_seq, poll_ns, poll_seq>>

\* ------------------------------------------------------------ helpers
SeqToSet(s) == {s[i] : i \in 1..Len(s)}

RemoveFrom(s, x) == SelectSeq(s, LAMBDA y : y # x)

NoReq == [path |-> NoPath, bios |-> <<>>, cmd_flags |-> FALSE, status |-> 0,
          stolen |-> <<>>]

\* ------------------------------------------------- failure classifier
\* the case labels of the switch in nvme_req_needs_failover
UnretryableCases ==
    { NVME_SC_INVALID_OPCODE, NVME_SC_INVALID_FIELD, NVME_SC_INVALID_NS,
      NVME_SC_LBA_RANGE, NVME_SC_CAP_EXCEEDED, NVME_SC_RESERVATION_CONFLICT,
      NVME_SC_BAD_ATTRIBUTES, NVME_SC_INVALID_PI, NVME_SC_READ_ONLY,
      NVME_SC_ONCS_NOT_SUPPORTED,
      NVME_SC_WRITE_FAULT, NVME_SC_READ_ERROR, NVME_SC_GUARD_CHECK,
      NVME_SC_APPTAG_CHECK, NVME_SC_REFTAG_CHECK, NVME_SC_COMPARE_FAILED,
      NVME_SC_ACCESS_DENIED, NVME_SC_UNWRITTEN_BLOCK }

\* a classifier that never asks for a failover
nvme_req_needs_failover_never(cmd_flags, status) == FALSE

\* the same function with the status switched on unmasked
nvme_req_needs_failover_nomask(cmd_flags, status) ==
    IF ~cmd_flags THEN FALSE ELSE status \notin UnretryableCases

\* nvme_req_needs_failover(req): REQ_NVME_MPATH test, then the switch on
\* status & 0x7ff
nvme_req_needs_failover(cmd_flags, status) ==
    IF ~cmd_flags
    THEN FALSE
    ELSE (status % StatusMask) \notin UnretryableCases

\* ------------------------------------------------------ path selector
RECURSIVE FirstLive(_)
FirstLive(l) ==
    IF l = <<>> THEN NoPath
    ELSE IF ctrl_state[Head(l)] = "LIVE" THEN Head(l)
    ELSE FirstLive(Tail(l))

\* the scan publishing what it found only into an empty cache
nvme_find_path_scan_keepstale ==
    [ ns |-> FirstLive(list),
      cur |-> IF current_path = NoPath THEN FirstLive(list) ELSE current_path,
      kind |-> IF current_path = NoPath THEN "scan_null" ELSE "scan_stale" ]

\* the scan returning the first LIVE sibling without publishing it
nvme_find_path_scan_noinstall ==
    [ ns |-> FirstLive(list),
      cur |-> current_path,
      kind |-> IF current_path = NoPath THEN "scan_null" ELSE "scan_stale" ]

\* the scan taking the first sibling whatever the state of its controller
nvme_find_path_scan_first ==
    LET found == IF list = <<>> THEN NoPath ELSE Head(list) IN
    [ ns |-> found,
      cur |-> IF found # NoPath THEN found ELSE current_path,
      kind |-> IF current_path = NoPath THEN "scan_null" ELSE "scan_stale" ]

\* __nvme_find_path(head): first sibling whose controller is LIVE; it is
\* published in head->current_path.  No live sibling: NULL, cache untouched.
nvme_find_path_scan ==
    LET found == FirstLive(list) IN
    [ ns |-> found,
      cur |-> IF found # NoPath THEN found ELSE current_path,
      kind |-> IF current_path = NoPath THEN "scan_null" ELSE "scan_stale" ]

\* the lookup that scans on every call, cached path or not
nvme_find_path_rescan == nvme_find_path_scan

\* the lookup trusting a cached path without looking at its controller
nvme_find_path_nocheck ==
    IF current_path = NoPath
    THEN nvme_find_path_scan
    ELSE [ ns |-> current_path, cur |-> current_path, kind |-> "cache" ]

\* nvme_find_path(head): the cached path if it is set and its controller is
\* LIVE, otherwise __nvme_find_path(head)
nvme_find_path ==
    IF current_path = NoPath \/ ctrl_state[current_path] # "LIVE"
    THEN nvme_find_path_scan
    ELSE [ ns |-> current_path, cur |-> current_path, kind |-> "cache" ]

\* --------------------------------------------------------------- Init
\* nvme_mpath_alloc_disk: empty requeue list, free lock, idle work item, a
\* live queue; no sibling has been linked yet
InitHead ==
    /\ list = <<>>
    /\ ctrl_state = [p \in Paths |-> "LIVE"]
    /\ current_path = NoPath
    /\ requeue_list = <<>>
    /\ requeue_lock = LockFree
    /\ work_pending = FALSE
    /\ qstate = "up"
    /\ pc = [t \in RouteThreads |-> "idle"]
    /\ bio = [t \in RouteThreads |-> NoBio]
    /\ ns = [t \in RouteThreads |-> NoPath]
    /\ next = <<>>
    /\ rqs = {}
    /\ bi_opf = [b \in Bios |-> FALSE]
    /\ bi_disk = [b \in Bios |-> HeadDisk]
    /\ bi_status = [b \in Bios |-> "none"]
    /\ unsent = Bios
    /\ fo_pc = "idle"
    /\ fo_req = NoReq
    /\ td_pc = "idle"
    /\ flush_wait = "none"
    /\ readers = {}
    /\ srcu_wait = {}
    /\ swapped = <<>>
    /\ resubmitted = <<>>
    /\ credits = [b \in Bios |-> 0]
    /\ td_snapshot = <<>>
    /\ find_kind = [t \in RouteThreads |-> "none"]

\* the stand-alone run of nvme_kick_requeue_lists is not under way
IdleKick ==
    /\ ctrl_namespaces = [c \in Paths |-> {}]
    /\ head_disk = [h \in Heads |-> TRUE]
    /\ head_work = [h \in Heads |-> FALSE]
    /\ kick_pc = NoPath

\* the stand-alone run of the selector and of poll is not under way
IdleSelect ==
    /\ sel_ns = NoPath
    /\ sel_kind = "none"
    /\ sel_seq = FALSE
    /\ poll_ns = NoPath
    /\ poll_seq = FALSE

Init ==
    /\ InitHead
    /\ cl_flags = FALSE
    /\ cl_status = 0
    /\ cl_ret = "none"
    /\ IdleKick
    /\ IdleSelect

kickVars == <<ctrl_namespaces, head_disk, head_work, kick_pc>>
selVars == <<sel_ns, sel_kind, sel_seq, poll_ns, poll_seq>>
clVars == <<cl_flags, cl_status, cl_ret, kickVars, selVars>>
pathVars == <<list, ctrl_state>>
queueVars == <<requeue_list, requeue_lock, work_pending>>
bioVars == <<bi_opf, bi_disk, bi_status, unsent>>
foVars == <<fo_pc, fo_req>>
tdVars == <<td_pc, flush_wait, td_snapshot, qstate>>
passVars == <<next, swapped, resubmitted>>
srcuVars == <<readers, srcu_wait>>
threadVars == <<pc, bio, ns, find_kind>>

\* ------------------------------------------------ block layer helpers
\* a queue that goes on taking bios after it has been marked dying
QueueNeverRejects == FALSE

\* blk_queue_enter on the head's queue fails once the queue has been marked
\* dying
QueueRejects == qstate # "up"

\* kblockd_schedule_work(&head->requeue_work): sets the pending bit
kblockd_schedule_work == work_pending' = TRUE

\* bio_endio: bios ended with a status go back to their owner, their
\* routing fields are dead from then on
EndBios(bs, status) ==
    /\ bi_status' = [b \in Bios |-> IF b \in bs THEN status ELSE bi_status[b]]
    /\ bi_disk' = [b \in Bios |-> IF b \in bs THEN HeadDisk ELSE bi_disk[b]]
    /\ bi_opf' = [b \in Bios |-> IF b \in bs THEN FALSE ELSE bi_opf[b]]

\* ------------------------------------------ nvme_ns_head_make_request
\* lines 149-151, 155, 161: enter the srcu read section, select, and branch
\* on the result
mr_enter(t, b) ==
    LET r == nvme_find_path IN
    /\ current_path' = r.cur
    /\ ns' = [ns EXCEPT ![t] = r.ns]
    /\ find_kind' = [find_kind EXCEPT ![t] = r.kind]
    /\ bio' = [bio EXCEPT ![t] = b]
    /\ pc' = [pc EXCEPT ![t] =
                IF r.ns # NoPath THEN "mr_dispatch"
                ELSE IF list # <<>> THEN "mr_lock"
                ELSE "mr_fail"]
    /\ readers' = readers \cup {t}

\* generic_make_request(bio) on the aggregate device: a dying queue ends
\* the bio with an error, a live one calls nvme_ns_head_make_request
generic_make_request(t, b) ==
    IF QueueRejects
    THEN /\ EndBios({b}, "BLK_STS_IOERR")
         /\ UNCHANGED <<current_path, threadVars, readers>>
    ELSE /\ mr_enter(t, b)
         /\ UNCHANGED <<bi_status, bi_opf>>
         /\ bi_disk' = [bi_disk EXCEPT ![b] = HeadDisk]

\* the routing thread leaves nvme_ns_head_make_request (lines 168-169):
\* a caller is done, the worker goes on with its loop
RouteReturn(t) ==
    /\ pc' = [pc EXCEPT ![t] = IF t = KW THEN "rw_loop" ELSE "idle"]
    /\ bio' = [bio EXCEPT ![t] = NoBio]
    /\ ns' = [ns EXCEPT ![t] = NoPath]
    /\ find_kind' = [find_kind EXCEPT ![t] = "none"]
    /\ readers' = readers \ {t}
    /\ srcu_wait' = srcu_wait \ {t}

\* the callers hand their bios in one after the other
NextBio == CHOOSE b \in unsent : \A c \in unsent : b <= c

\* a caller submits a bio to the aggregate device
Submit(t) ==
    /\ t \in Subs
    /\ pc[t] = "idle"
    /\ unsent # {}
    /\ qstate # "released"
    /\ unsent' = unsent \ {NextBio}
    /\ generic_make_request(t, NextBio)
    /\ UNCHANGED <<pathVars, queueVars, rqs, foVars, tdVars, passVars,
                   srcu_wait, credits, clVars>>

\* direct_make_request(bio) on the path's queue: the bio starts a request
\* or is merged into one that is still queued there
direct_make_request(b, p) ==
    \/ rqs' = rqs \cup {[path |-> p, bios |-> <<b>>, cmd_flags |-> bi_opf'[b]]}
    \/ \E r \in rqs :
        /\ r.path = p
        /\ r.cmd_flags = bi_opf'[b]
        /\ rqs' = (rqs \ {r}) \cup {[r EXCEPT !.bios = Append(@, b)]}

\* the dispatch without setting REQ_NVME_MPATH
mr_dispatch_notag(t) ==
    /\ pc[t] = "mr_dispatch"
    /\ bi_disk' = [bi_disk EXCEPT ![bio[t]] = ns[t]]
    /\ bi_opf' = bi_opf
    /\ direct_make_request(bio[t], ns[t])
    /\ RouteReturn(t)
    /\ UNCHANGED <<pathVars, current_path, queueVars, bi_status, unsent,
                   foVars, tdVars, passVars, credits, clVars>>

\* lines 152-154: retarget to the path, tag, dispatch
mr_dispatch(t) ==
    /\ pc[t] = "mr_dispatch"
    /\ bi_disk' = [bi_disk EXCEPT ![bio[t]] = ns[t]]
    /\ bi_opf' = [bi_opf EXCEPT ![bio[t]] = TRUE]
    /\ direct_make_request(bio[t], ns[t])
    /\ RouteReturn(t)
    /\ UNCHANGED <<pathVars, current_path, queueVars, bi_status, unsent,
                   foVars, tdVars, passVars, credits, clVars>>

\* line 158: spin_lock_irq(&head->requeue_lock)
mr_lock(t) ==
    /\ pc[t] = "mr_lock"
    /\ requeue_lock = LockFree
    /\ requeue_lock' = t
    /\ pc' = [pc EXCEPT ![t] = "mr_add"]
    /\ UNCHANGED <<pathVars, current_path, requeue_list, work_pending, bio,
                   ns, find_kind, rqs, bioVars, foVars, tdVars, passVars,
                   srcuVars, credits, clVars>>

\* lines 159-160: bio_list_add and unlock
mr_add(t) ==
    /\ pc[t] = "mr_add"
    /\ requeue_list' = Append(requeue_list, bio[t])
    /\ requeue_lock' = LockFree
    /\ credits' = [credits EXCEPT ![bio[t]] = @ + 1]
    /\ RouteReturn(t)
    /\ UNCHANGED <<pathVars, current_path, work_pending, rqs, bioVars,
                   foVars, tdVars, passVars, clVars>>

\* lines 164-165: bi_status = BLK_STS_IOERR, bio_endio
mr_fail(t) ==
    /\ pc[t] = "mr_fail"
    /\ EndBios({bio[t]}, "BLK_STS_IOERR")
    /\ RouteReturn(t)
    /\ UNCHANGED <<pathVars, current_path, queueVars, rqs, unsent, foVars,
                   tdVars, passVars, credits, clVars>>

\* ------------------------------------------------- nvme_requeue_work
\* kblockd runs the queued work item: the pending bit is cleared, the
\* function starts and takes the lock (line 193); one work item never runs
\* twice at a time
rw_lock ==
    /\ work_pending
    /\ pc[KW] = "idle"
    /\ requeue_lock = LockFree
    /\ work_pending' = FALSE
    /\ requeue_lock' = KW
    /\ pc' = [pc EXCEPT ![KW] = "rw_get"]
    /\ flush_wait' = IF flush_wait = "pending" THEN "running" ELSE flush_wait
    /\ UNCHANGED <<pathVars, current_path, requeue_list, bio, ns, find_kind,
                   rqs, bioVars, foVars, td_pc, td_snapshot, qstate,
                   passVars, srcuVars, credits, clVars>>

\* the swap keeping only the head of the list, the rest is dropped
rw_get_drop_tail ==
    /\ pc[KW] = "rw_get"
    /\ next' = IF requeue_list = <<>> THEN <<>> ELSE <<Head(requeue_list)>>
    /\ requeue_list' = <<>>
    /\ requeue_lock' = LockFree
    /\ swapped' = requeue_list
    /\ resubmitted' = <<>>
    /\ pc' = [pc EXCEPT ![KW] = "rw_loop"]
    /\ UNCHANGED <<pathVars, current_path, work_pending, bio, ns, find_kind,
                   rqs, bioVars, foVars, tdVars, srcuVars, credits, clVars>>

\* the swap that goes on to the loop without releasing the lock
rw_get_keep_lock ==
    /\ pc[KW] = "rw_get"
    /\ next' = requeue_list
    /\ requeue_list' = <<>>
    /\ requeue_lock' = requeue_lock
    /\ swapped' = requeue_list
    /\ resubmitted' = <<>>
    /\ pc' = [pc EXCEPT ![KW] = "rw_loop"]
    /\ UNCHANGED <<pathVars, current_path, work_pending, bio, ns, find_kind,
                   rqs, bioVars, foVars, tdVars, srcuVars, credits, clVars>>

\* the list is read but not emptied: its bios stay queued while they are
\* resubmitted
rw_get_noclear ==
    /\ pc[KW] = "rw_get"
    /\ next' = requeue_list
    /\ requeue_list' = requeue_list
    /\ requeue_lock' = LockFree
    /\ swapped' = requeue_list
    /\ resubmitted' = <<>>
    /\ pc' = [pc EXCEPT ![KW] = "rw_loop"]
    /\ UNCHANGED <<pathVars, current_path, work_pending, bio, ns, find_kind,
                   rqs, bioVars, foVars, tdVars, srcuVars, credits, clVars>>

\* lines 194-195: next = bio_list_get(&head->requeue_list), unlock
rw_get ==
    /\ pc[KW] = "rw_get"
    /\ next' = requeue_list
    /\ requeue_list' = <<>>
    /\ requeue_lock' = LockFree
    /\ swapped' = requeue_list
    /\ resubmitted' = <<>>
    /\ pc' = [pc EXCEPT ![KW] = "rw_loop"]
    /\ UNCHANGED <<pathVars, current_path, work_pending, bio, ns, find_kind,
                   rqs, bioVars, foVars, tdVars, srcuVars, credits, clVars>>

\* lines 197-206: one turn of the loop: unlink the bio, reset bi_disk to the
\* head's disk, generic_make_request
rw_resubmit ==
    /\ pc[KW] = "rw_loop"
    /\ next # <<>>
    /\ next' = Tail(next)
    /\ resubmitted' = Append(resubmitted, Head(next))
    /\ credits' = [credits EXCEPT ![Head(next)] = @ - 1]
    /\ generic_make_request(KW, Head(next))
    /\ UNCHANGED <<pathVars, queueVars, rqs, unsent, foVars, tdVars, swapped,
                   srcu_wait, clVars>>

\* line 197, bio == NULL: the pass is over
rw_done ==
    /\ pc[KW] = "rw_loop"
    /\ next = <<>>
    /\ pc' = [pc EXCEPT ![KW] = "idle"]
    /\ flush_wait' = IF flush_wait = "running" THEN "done" ELSE flush_wait
    /\ swapped' = <<>>
    /\ resubmitted' = <<>>
    /\ UNCHANGED <<pathVars, current_path, queueVars, bio, ns, find_kind,
                   rqs, bioVars, foVars, td_pc, td_snapshot, qstate, next,
                   srcuVars, credits, clVars>>

\* ------------------------------------------- completion and failover
\* completion statuses the paths deliver
Statuses == {0, NVME_SC_GUARD_CHECK, NVME_SC_ABORT_REQ}

\* nvme_error_status: the block status a request ends with, by its status
\* & 0x7ff: success, a protection error for the guard check, BLK_STS_IOERR
\* for a code without a block status of its own
nvme_error_status(st) ==
    IF st = 0 THEN "BLK_STS_OK"
    ELSE IF st % StatusMask = NVME_SC_GUARD_CHECK THEN "BLK_STS_PROTECTION"
    ELSE "BLK_STS_IOERR"

\* a request completes on its path with status st and the classifier does
\* not ask for a failover: blk_mq_end_request(req, nvme_error_status(req))
Complete(r, st) ==
    /\ r \in rqs
    /\ st \in Statuses
    /\ ~(st # 0 /\ nvme_req_needs_failover(r.cmd_flags, st))
    /\ rqs' = rqs \ {r}
    /\ EndBios(SeqToSet(r.bios), nvme_error_status(st))
    /\ UNCHANGED <<pathVars, current_path, queueVars, threadVars, unsent,
                   foVars, tdVars, passVars, srcuVars, credits, clVars>>

\* a request completes with a failure the classifier judges a path
\* failure: nvme_failover_req(req) is entered
CompleteFailover(r, st) ==
    /\ fo_pc = "idle"
    /\ r \in rqs
    /\ st \in Statuses
    /\ st # 0 /\ nvme_req_needs_failover(r.cmd_flags, st)
    /\ rqs' = rqs \ {r}
    /\ fo_pc' = "fo_lock"
    /\ fo_req' = [path |-> r.path, bios |-> r.bios,
                  cmd_flags |-> r.cmd_flags, status |-> st, stolen |-> <<>>]
    /\ UNCHANGED <<pathVars, current_path, queueVars, threadVars, bioVars,
                   tdVars, passVars, srcuVars, credits, clVars>>

\* nvme_failover_req line 49: spin_lock_irqsave(&ns->head->requeue_lock)
fo_lock ==
    /\ fo_pc = "fo_lock"
    /\ requeue_lock = LockFree
    /\ requeue_lock' = FoThread
    /\ fo_pc' = "fo_steal"
    /\ UNCHANGED <<pathVars, current_path, requeue_list, work_pending,
                   threadVars, rqs, bioVars, fo_req, tdVars, passVars,
                   srcuVars, credits, clVars>>

\* the steal taking the first bio only and leaving the rest on the request
blk_steal_bios_first ==
    /\ requeue_list' = Append(requeue_list, Head(fo_req.bios))
    /\ fo_req' = [fo_req EXCEPT !.bios = Tail(fo_req.bios),
                                !.stolen = <<Head(fo_req.bios)>>]

\* blk_steal_bios(list, rq): the request's bios are appended to the list
\* and the request is left without any
blk_steal_bios ==
    /\ requeue_list' = requeue_list \o fo_req.bios
    /\ fo_req' = [fo_req EXCEPT !.bios = <<>>, !.stolen = fo_req.bios]

\* lines 50-51: blk_steal_bios, unlock
fo_steal ==
    /\ fo_pc = "fo_steal"
    /\ blk_steal_bios
    /\ requeue_lock' = LockFree
    /\ credits' = [b \in Bios |->
                     IF b \in SeqToSet(fo_req.bios) THEN credits[b] + 1
                     ELSE credits[b]]
    /\ fo_pc' = "fo_end"
    /\ UNCHANGED <<pathVars, current_path, work_pending, threadVars, rqs,
                   bioVars, tdVars, passVars, srcuVars, clVars>>

\* line 52: blk_mq_end_request(req, 0) ends what is still attached to the
\* request with BLK_STS_OK
fo_end ==
    /\ fo_pc = "fo_end"
    /\ EndBios(SeqToSet(fo_req.bios), nvme_error_status(0))
    /\ fo_req' = [fo_req EXCEPT !.status = 0]
    /\ fo_pc' = "fo_kick"
    /\ UNCHANGED <<pathVars, current_path, queueVars, threadVars, rqs,
                   unsent, tdVars, passVars, srcuVars, credits, clVars>>

\* nvme_reset_ctrl(ctrl) moves a LIVE controller to RESETTING and queues
\* its reset; it does nothing for a controller in another state
nvme_reset_ctrl(p) ==
    ctrl_state' = [ctrl_state EXCEPT ![p] =
                     IF @ = "LIVE" THEN "RESETTING" ELSE @]

\* the end of nvme_failover_req without scheduling the requeue work
fo_kick_nosched ==
    /\ fo_pc = "fo_kick"
    /\ nvme_reset_ctrl(fo_req.path)
    /\ fo_pc' = "idle"
    /\ fo_req' = NoReq
    /\ UNCHANGED <<list, current_path, queueVars, threadVars, rqs, bioVars,
                   tdVars, passVars, srcuVars, credits, clVars>>

\* lines 54-55: nvme_reset_ctrl(ns->ctrl), then kblockd_schedule_work
fo_kick ==
    /\ fo_pc = "fo_kick"
    /\ nvme_reset_ctrl(fo_req.path)
    /\ kblockd_schedule_work
    /\ fo_pc' = "idle"
    /\ fo_req' = NoReq
    /\ UNCHANGED <<list, current_path, requeue_list, requeue_lock,
                   threadVars, rqs, bioVars, tdVars, passVars, srcuVars,
                   credits, clVars>>

\* ------------------------------------------- nvme_mpath_remove_disk
\* the head is torn down when its last path is gone: every path is
\* unlinked, the removals have waited out the srcu readers that could still
\* see a path and have reset the cache, and the paths' queues are drained
LastPathGone ==
    /\ list = <<>>
    /\ srcu_wait = {}
    /\ current_path = NoPath
    /\ rqs = {}
    /\ fo_pc \in {"idle", "fo_kick"}

\* lines 272-277: head->disk is there; del_gendisk, blk_set_queue_dying
td_start ==
    /\ td_pc = "idle"
    /\ qstate = "up"
    /\ LastPathGone
    /\ qstate' = "dying"
    /\ td_snapshot' = requeue_list
    /\ td_pc' = "td_sched"
    /\ UNCHANGED <<pathVars, current_path, queueVars, threadVars, rqs,
                   bioVars, foVars, flush_wait, passVars, srcuVars, credits,
                   clVars>>

\* line 279: kblockd_schedule_work(&head->requeue_work)
td_sched ==
    /\ td_pc = "td_sched"
    /\ kblockd_schedule_work
    /\ td_pc' = "td_flush"
    /\ UNCHANGED <<pathVars, current_path, requeue_list, requeue_lock,
                   threadVars, rqs, bioVars, foVars, flush_wait, td_snapshot,
                   qstate, passVars, srcuVars, credits, clVars>>

\* the flush returning at once, whatever the state of the work item
td_flush_nowait ==
    /\ td_pc = "td_flush"
    /\ flush_wait' = "done"
    /\ td_pc' = "td_wait"
    /\ UNCHANGED <<pathVars, current_path, queueVars, threadVars, rqs,
                   bioVars, foVars, td_snapshot, qstate, passVars, srcuVars,
                   credits, clVars>>

\* line 280, entry of flush_work: it waits for the last queued instance of
\* the work item, the pending one or else the running one
td_flush ==
    /\ td_pc = "td_flush"
    /\ flush_wait' = IF work_pending THEN "pending"
                     ELSE IF pc[KW] # "idle" THEN "running"
                     ELSE "done"
    /\ td_pc' = "td_wait"
    /\ UNCHANGED <<pathVars, current_path, queueVars, threadVars, rqs,
                   bioVars, foVars, td_snapshot, qstate, passVars, srcuVars,
                   credits, clVars>>

\* line 280 returns; lines 281-282: blk_cleanup_queue, put_disk
td_release ==
    /\ td_pc = "td_wait"
    /\ flush_wait = "done"
    /\ qstate' = "released"
    /\ td_pc' = "done"
    /\ td_snapshot' = <<>>
    /\ UNCHANGED <<pathVars, current_path, queueVars, threadVars, rqs,
                   bioVars, foVars, flush_wait, passVars, srcuVars, credits,
                   clVars>>

\* ------------------------------------------------------- environment
\* a controller changes state
CtrlChange(p, st) ==
    /\ ctrl_state[p] # st
    /\ ctrl_state' = [ctrl_state EXCEPT ![p] = st]
    /\ UNCHANGED <<list, current_path, queueVars, threadVars, rqs, bioVars,
                   foVars, tdVars, passVars, srcuVars, credits, clVars>>

\* a controller reports the namespace: its path is linked at the tail of
\* head->list
AddPath(p) ==
    /\ qstate = "up"
    /\ p \notin SeqToSet(list)
    /\ list' = Append(list, p)
    /\ UNCHANGED <<ctrl_state, current_path, queueVars, threadVars, rqs,
                   bioVars, foVars, tdVars, passVars, srcuVars, credits,
                   clVars>>

\* a path goes away: it is unlinked from head->list; the removal then waits
\* for the srcu readers of that moment
RemovePath(p) ==
    /\ p \in SeqToSet(list)
    /\ list' = RemoveFrom(list, p)
    /\ srcu_wait' = srcu_wait \cup readers
    /\ UNCHANGED <<ctrl_state, current_path, queueVars, threadVars, rqs,
                   bioVars, foVars, tdVars, passVars, readers, credits,
                   clVars>>

\* the removal of a path resets head->current_path when it still points to
\* the path that was unlinked, and waits for the srcu readers of that moment
ClearCurrentPath ==
    /\ current_path # NoPath
    /\ current_path \notin SeqToSet(list)
    /\ current_path' = NoPath
    /\ srcu_wait' = srcu_wait \cup readers
    /\ UNCHANGED <<pathVars, queueVars, threadVars, rqs, bioVars, foVars,
                   tdVars, passVars, readers, credits, clVars>>

\* nvme_kick_requeue_lists(ctrl): the controller of path p schedules the
\* requeue work of the head its namespace belongs to
nvme_kick_requeue_lists(p) ==
    /\ p \in SeqToSet(list)
    /\ kblockd_schedule_work
    /\ UNCHANGED <<pathVars, current_path, requeue_list, requeue_lock,
                   threadVars, rqs, bioVars, foVars, tdVars, passVars,
                   srcuVars, credits, clVars>>

\* --------------------------------------------------------------- Next
Next ==
    \/ \E t \in Subs : Submit(t)
    \/ \E t \in RouteThreads : mr_dispatch(t)
    \/ \E t \in RouteThreads : mr_lock(t)
    \/ \E t \in RouteThreads : mr_add(t)
    \/ \E t \in RouteThreads : mr_fail(t)
    \/ rw_lock
    \/ rw_get
    \/ rw_resubmit
    \/ rw_done
    \/ \E r \in rqs, st \in Statuses : Complete(r, st)
    \/ \E r \in rqs, st \in Statuses : CompleteFailover(r, st)
    \/ fo_lock
    \/ fo_steal
    \/ fo_end
    \/ fo_kick
    \/ td_start
    \/ td_sched
    \/ td_flush
    \/ td_release
    \/ \E p \in Paths, st \in CtrlStates : CtrlChange(p, st)
    \/ \E p \in Paths : AddPath(p)
    \/ \E p \in Paths : RemovePath(p)
    \/ ClearCurrentPath
    \/ \E p \in Paths : nvme_kick_requeue_lists(p)

Spec == Init /\ [][Next]_vars

\* ------------------------------------------- the classifier on its own
MaxStatus == 2700

ClStatuses == (0..MaxStatus) \cup {c + NVME_SC_DNR : c \in 0..MaxStatus}

InitClassify ==
    /\ InitHead
    /\ IdleKick
    /\ IdleSelect
    /\ cl_flags \in BOOLEAN
    /\ cl_status \in ClStatuses
    /\ cl_ret = "none"

\* one call of nvme_req_needs_failover on the drawn request
Classify ==
    /\ cl_ret = "none"
    /\ cl_ret' = IF nvme_req_needs_failover(cl_flags, cl_status)
                 THEN "true" ELSE "false"
    /\ UNCHANGED <<pathVars, current_path, queueVars, threadVars, rqs,
                   bioVars, foVars, tdVars, passVars, srcuVars, credits,
                   cl_flags, cl_status, kickVars, selVars>>

NextClassify == Classify

SpecClassify == InitClassify /\ [][NextClassify]_vars


\* ------------------------------- nvme_kick_requeue_lists on its own
\* the heads of one subsystem and its controllers: which namespaces a
\* controller has, which heads got a disk from nvme_mpath_alloc_disk
InitKick ==
    /\ InitHead
    /\ cl_flags = FALSE
    /\ cl_status = 0
    /\ cl_ret = "none"
    /\ ctrl_namespaces \in [Paths -> SUBSET Heads]
    /\ head_disk \in [Heads -> BOOLEAN]
    /\ head_work = [h \in Heads |-> FALSE]
    /\ kick_pc = NoPath
    /\ IdleSelect

headVars == <<pathVars, current_path, queueVars, threadVars, rqs, bioVars,
              foVars, tdVars, passVars, srcuVars, credits, cl_flags,
              cl_status, cl_ret, selVars>>

\* line 109: nvme_kick_requeue_lists(ctrl) is entered and takes
\* ctrl->namespaces_mutex
kick_enter(c) ==
    /\ kick_pc = NoPath
    /\ kick_pc' = c
    /\ UNCHANGED <<headVars, ctrl_namespaces, head_disk, head_work>>

\* the loop scheduling the work of every head whatever controller its
\* namespaces are on
kick_loop_subsys ==
    /\ kick_pc # NoPath
    /\ head_work' = [h \in Heads |-> head_work[h] \/ head_disk[h]]
    /\ kick_pc' = NoPath
    /\ UNCHANGED <<headVars, ctrl_namespaces, head_disk>>

\* lines 110-114: for every ns on ctrl->namespaces, the work of ns->head is
\* scheduled if ns->head->disk is set; unlock
kick_loop ==
    /\ kick_pc # NoPath
    /\ head_work' = [h \in Heads |->
                       \/ head_work[h]
                       \/ (h \in ctrl_namespaces[kick_pc] /\ head_disk[h])]
    /\ kick_pc' = NoPath
    /\ UNCHANGED <<headVars, ctrl_namespaces, head_disk>>

\* kblockd starts the queued work of head h: the pending bit is cleared
kick_work_run(h) ==
    /\ head_work[h]
    /\ head_work' = [head_work EXCEPT ![h] = FALSE]
    /\ UNCHANGED <<headVars, ctrl_namespaces, head_disk, kick_pc>>

NextKick ==
    \/ \E c \in Paths : kick_enter(c)
    \/ kick_loop
    \/ \E h \in Heads : kick_work_run(h)

SpecKick == InitKick /\ [][NextKick]_vars


\* ------------------------------------- the selector and poll on their own
\* one call of nvme_find_path(head) from start to return
Select ==
    LET r == nvme_find_path IN
    /\ current_path' = r.cur
    /\ sel_ns' = r.ns
    /\ sel_kind' = r.kind
    /\ sel_seq' = ~sel_seq
    /\ UNCHANGED <<pathVars, queueVars, threadVars, rqs, bioVars, foVars,
                   tdVars, passVars, srcuVars, credits, cl_flags, cl_status,
                   cl_ret, kickVars, poll_ns, poll_seq>>

\* nvme_ns_head_poll (lines 179-183): head->current_path is read and, if it
\* is set and its controller is LIVE, the poll_fn of its queue is called
Poll ==
    /\ poll_ns' = IF current_path # NoPath
                     /\ ctrl_state[current_path] = "LIVE"
                  THEN current_path ELSE NoPath
    /\ poll_seq' = ~poll_seq
    /\ UNCHANGED <<pathVars, current_path, queueVars, threadVars, rqs,
                   bioVars, foVars, tdVars, passVars, srcuVars, credits,
                   cl_flags, cl_status, cl_ret, kickVars, sel_ns, sel_kind,
                   sel_seq>>

NextSelect ==
    \/ Select
    \/ Poll
    \/ \E p \in Paths, st \in CtrlStates : CtrlChange(p, st)
    \/ \E p \in Paths : AddPath(p)
    \/ \E p \in Paths : RemovePath(p)
    \/ ClearCurrentPath

SpecSelect == Init /\ [][NextSelect]_vars


\* ------------------------------------ failover and requeue work, fair
\* both paths are linked and stay; callers submit, requests complete or
\* fail over, controllers change state, the worker drains
InitLive ==
    /\ list = <<1, 2>>
    /\ ctrl_state = [p \in Paths |-> "LIVE"]
    /\ current_path = NoPath
    /\ requeue_list = <<>>
    /\ requeue_lock = LockFree
    /\ work_pending = FALSE
    /\ qstate = "up"
    /\ pc = [t \in RouteThreads |-> "idle"]
    /\ bio = [t \in RouteThreads |-> NoBio]
    /\ ns = [t \in RouteThreads |-> NoPath]
    /\ next = <<>>
    /\ rqs = {}
    /\ bi_opf = [b \in Bios |-> FALSE]
    /\ bi_disk = [b \in Bios |-> HeadDisk]
    /\ bi_status = [b \in Bios |-> "none"]
    /\ unsent = Bios
    /\ fo_pc = "idle"
    /\ fo_req = NoReq
    /\ td_pc = "idle"
    /\ flush_wait = "none"
    /\ readers = {}
    /\ srcu_wait = {}
    /\ swapped = <<>>
    /\ resubmitted = <<>>
    /\ credits = [b \in Bios |-> 0]
    /\ td_snapshot = <<>>
    /\ find_kind = [t \in RouteThreads |-> "none"]
    /\ cl_flags = FALSE
    /\ cl_status = 0
    /\ cl_ret = "none"
    /\ IdleKick
    /\ IdleSelect

NextLive ==
    \/ \E t \in Subs : Submit(t)
    \/ \E t \in RouteThreads : mr_dispatch(t)
    \/ \E t \in RouteThreads : mr_lock(t)
    \/ \E t \in RouteThreads : mr_add(t)
    \/ rw_lock
    \/ rw_get
    \/ rw_resubmit
    \/ rw_done
    \/ \E r \in rqs, st \in Statuses : Complete(r, st)
    \/ \E r \in rqs, st \in Statuses : CompleteFailover(r, st)
    \/ fo_lock
    \/ fo_steal
    \/ fo_end
    \/ fo_kick
    \/ \E p \in Paths, st \in CtrlStates : CtrlChange(p, st)

\* kblockd runs a queued work item and the work function runs to its end;
\* nvme_failover_req runs to its end; a spinlock is released after the list
\* operation and a waiter gets it in the end
FairLive ==
    /\ SF_vars(rw_lock)
    /\ WF_vars(rw_get)
    /\ WF_vars(rw_resubmit)
    /\ WF_vars(rw_done)
    /\ WF_vars(mr_dispatch(KW))
    /\ SF_vars(mr_lock(KW))
    /\ \A t \in RouteThreads : WF_vars(mr_add(t))
    /\ SF_vars(fo_lock)
    /\ WF_vars(fo_steal)
    /\ WF_vars(fo_end)
    /\ WF_vars(fo_kick)

SpecLive == InitLive /\ [][NextLive]_vars /\ FairLive

\* ================================================================ claims
\* thread t makes its nvme_find_path call in this step
Selects(t) == find_kind[t] = "none" /\ find_kind'[t] # "none"

\* C1: nvme_find_path never returns a path whose controller is not LIVE at
\* the moment it returns, be it the cached path or the result of the scan,
\* and it returns NULL only when no sibling in head->list has a LIVE
\* controller.
C1_SelectReturnsLive ==
    [][\A t \in RouteThreads :
         Selects(t) =>
           /\ ns'[t] # NoPath => ctrl_state'[ns'[t]] = "LIVE"
           /\ ns'[t] = NoPath =>
                \A p \in SeqToSet(list') : ctrl_state'[p] # "LIVE"]_vars

\* a caller holds a path returned from the cache while the worker's call,
\* made after that path went down, has come back with NULL from the scan
C1_Witness ==
    \E t \in Subs :
        /\ find_kind[t] = "cache"
        /\ ns[t] # NoPath
        /\ find_kind[KW] \in {"scan_null", "scan_stale"}
        /\ ns[KW] = NoPath
        /\ list # <<>>

\* C2: when the cached path's controller is no longer LIVE, the next
\* nvme_find_path scans head->list and returns a LIVE path other than the
\* cached one, or NULL, never the stale cached path; with head->list =
\* [1, 2], path 1 cached and down and path 2 LIVE, it returns path 2.
C2_StaleCacheNotReturned ==
    [][\A t \in RouteThreads :
         (Selects(t) /\ current_path # NoPath
                     /\ ctrl_state[current_path] # "LIVE") =>
           /\ find_kind'[t] = "scan_stale"
           /\ ns'[t] # current_path
           /\ ns'[t] # NoPath => ctrl_state'[ns'[t]] = "LIVE"
           /\ (list = <<1, 2>> /\ current_path = 1
                 /\ ctrl_state[2] = "LIVE") => ns'[t] = 2]_vars

\* the scenario: [1, 2] with path 1 down, a call that found the cache stale
\* has returned path 2 and cached it
C2_Witness ==
    \E t \in RouteThreads :
        /\ find_kind[t] = "scan_stale"
        /\ ns[t] = 2
        /\ current_path = 2
        /\ list = <<1, 2>>
        /\ ctrl_state[1] # "LIVE"

\* the status code of a completion: status code type and status code, the
\* low eleven bits of the status field
StatusCodeType(status) == (status % 2048) \div 256
StatusCodeValue(status) == status % 256

\* the codes the classification table lists as not being path failures
ListedUnretryable(status) ==
    \/ /\ StatusCodeType(status) = 0
       /\ StatusCodeValue(status) \in {1, 2, 11, 128, 129, 131}
    \/ /\ StatusCodeType(status) = 1
       /\ StatusCodeValue(status) \in 128..131
    \/ /\ StatusCodeType(status) = 2
       /\ StatusCodeValue(status) \in 128..135

\* C3: nvme_req_needs_failover is a function of the REQ_NVME_MPATH tag and
\* the status code alone: false for an untagged request, false for a tagged
\* request with one of the listed codes, true for a tagged request with any
\* other code.
C3_ClassifierTable ==
    cl_ret # "none" =>
        cl_ret = IF ~cl_flags THEN "false"
                 ELSE IF ListedUnretryable(cl_status) THEN "false"
                 ELSE "true"

\* a tagged request with guard-check and the do-not-retry bit was judged
\* unretryable
C3_Witness ==
    /\ cl_ret = "false"
    /\ cl_flags
    /\ cl_status = NVME_SC_GUARD_CHECK + NVME_SC_DNR

\* C4: a request handed to nvme_failover_req is ended with status 0
\* towards its caller, and only after all its bios have been moved onto
\* head->requeue_list: the steal appends every bio of the request to the
\* list and leaves the request empty, and the end that follows ends no bio.
C4_FailoverEndsOk ==
    [][/\ (fo_pc = "fo_steal" /\ fo_pc' = "fo_end") =>
            /\ requeue_list' = requeue_list \o fo_req.bios
            /\ fo_req'.bios = <<>>
            /\ requeue_lock = FoThread
       /\ (fo_pc = "fo_end" /\ fo_pc' = "fo_kick") =>
            /\ fo_req.bios = <<>>
            /\ fo_req.status # 0
            /\ fo_req'.status = 0
            /\ bi_status' = bi_status]_vars

\* a failed request of two bios has been ended with status 0 after both
\* were moved to the requeue list
C4_Witness ==
    /\ fo_pc = "fo_kick"
    /\ fo_req.status = 0
    /\ Len(fo_req.stolen) = 2
    /\ fo_req.bios = <<>>

IsPrefix(s, t) == Len(s) <= Len(t) /\ SubSeq(t, 1, Len(s)) = s

\* the worker is in a pass, past its swap
InPass == pc[KW] \notin {"idle", "rw_get"}

\* C5: a pass of nvme_requeue_work loses no bio: what it resubmits is
\* exactly what was on head->requeue_list at its swap, in order, and a bio
\* enqueued while the pass runs goes to the fresh list and stays there until
\* a later swap takes it.
C5_DrainLosesNothing ==
    /\ [](InPass => swapped = resubmitted \o next)
    /\ [][/\ (pc[KW] = "rw_get" /\ pc'[KW] = "rw_loop") =>
               (next' = requeue_list /\ requeue_list' = <<>>)
          /\ ~(pc[KW] = "rw_get" /\ pc'[KW] = "rw_loop") =>
               IsPrefix(requeue_list, requeue_list')
          /\ (pc[KW] = "rw_loop" /\ pc'[KW] = "idle") =>
               resubmitted = swapped]_vars

\* a pass that took one bio has not resubmitted it yet, and another bio
\* has been enqueued on the fresh list meanwhile
C5_Witness ==
    /\ pc[KW] = "rw_loop"
    /\ swapped = <<1>>
    /\ next = <<1>>
    /\ requeue_list = <<2>>

CountSeq(s, b) == Cardinality({i \in 1..Len(s) : s[i] = b})

\* the number of places that hold bio b
Places(b) ==
    CountSeq(requeue_list, b)
    + CountSeq(next, b)
    + Cardinality({t \in RouteThreads : bio[t] = b})
    + Cardinality({ri \in rqs \X (1..NumBios) :
                     ri[2] <= Len(ri[1].bios) /\ ri[1].bios[ri[2]] = b})
    + CountSeq(fo_req.bios, b)
    + (IF bi_status[b] # "none" THEN 1 ELSE 0)
    + (IF b \in unsent THEN 1 ELSE 0)

\* C6: in every reachable state a bio is in at most one place: the requeue
\* list, the private list of the pass, a routing thread's hands, a request
\* in flight, the request being failed over, or ended; and every enqueue is
\* matched by at most one resubmission.
C6_OnePlacePerBio ==
    \A b \in Bios :
        /\ Places(b) <= 1
        /\ credits[b] = CountSeq(requeue_list, b) + CountSeq(next, b)

\* one bio sits in the private list of a pass while a failover has just
\* moved the other onto the requeue list
C6_Witness ==
    /\ next = <<1>>
    /\ requeue_list = <<2>>
    /\ fo_pc = "fo_end"
    /\ fo_req.stolen = <<2>>

\* C7: a bio routed while head->list is empty is failed at once with
\* BLK_STS_IOERR; it is neither dispatched nor put on the requeue list, and
\* the lock is not taken.
C7_EmptySetFails ==
    [][\A t \in RouteThreads :
         /\ (Selects(t) /\ list = <<>>) => pc'[t] = "mr_fail"
         /\ (pc[t] = "mr_fail" /\ pc'[t] # "mr_fail") =>
               /\ bi_status'[bio[t]] = "BLK_STS_IOERR"
               /\ requeue_list' = requeue_list
               /\ requeue_lock' = requeue_lock
               /\ rqs' = rqs]_vars

\* no sibling on head->list has a LIVE controller
NoLiveSibling == \A p \in SeqToSet(list) : ctrl_state[p] # "LIVE"

\* C8: a bio routed while head->list is not empty and no sibling on it has a
\* LIVE controller is appended to head->requeue_list under requeue_lock; it
\* is neither ended nor dispatched.
C8_NoLiveSiblingRequeues ==
    [][\A t \in RouteThreads :
         /\ (Selects(t) /\ list # <<>> /\ NoLiveSibling) =>
               /\ pc'[t] = "mr_lock"
               /\ rqs' = rqs
               /\ bi_status'[bio'[t]] = "none"
         /\ (pc[t] = "mr_lock" /\ pc'[t] # "mr_lock") =>
               /\ pc'[t] = "mr_add"
               /\ requeue_lock' = t
         /\ (pc[t] = "mr_add" /\ pc'[t] # "mr_add") =>
               /\ requeue_lock = t
               /\ requeue_list' = Append(requeue_list, bio[t])
               /\ requeue_lock' = LockFree
               /\ rqs' = rqs
               /\ bi_status' = bi_status]_vars

\* C9: a bio for which nvme_find_path returned a path is tagged
\* REQ_NVME_MPATH and dispatched to the queue of exactly that path, and not
\* put on the requeue list; so every request in flight on a path carries the
\* tag when it completes.
C9_DispatchTagged ==
    /\ [](\A r \in rqs : r.cmd_flags)
    /\ [][\A t \in RouteThreads :
            /\ (Selects(t) /\ ns'[t] # NoPath) => pc'[t] = "mr_dispatch"
            /\ (pc[t] = "mr_dispatch" /\ pc'[t] # "mr_dispatch") =>
                  /\ bi_opf'[bio[t]]
                  /\ bi_disk'[bio[t]] = ns[t]
                  /\ \E r \in rqs' :
                        /\ r.path = ns[t]
                        /\ r.cmd_flags
                        /\ bio[t] \in SeqToSet(r.bios)
                  /\ \A r \in rqs' :
                        bio[t] \in SeqToSet(r.bios) => r.path = ns[t]
                  /\ requeue_list' = requeue_list]_vars

\* two bios were dispatched to the second path and merged into one tagged
\* request
C9_Witness ==
    \E r \in rqs :
        /\ r.path = 2
        /\ r.cmd_flags
        /\ Len(r.bios) = 2
        /\ \A i \in 1..2 : bi_opf[r.bios[i]] /\ bi_disk[r.bios[i]] = 2

\* C10: when nvme_mpath_remove_disk returns from flush_work and releases
\* the queue and the disk, head->requeue_list is empty, no pass holds a bio,
\* every bio that was on the list when remove_disk was called has been
\* resubmitted and ended, and every bio is still in exactly one place.
C10_TearDownDrains ==
    [][(td_pc = "td_wait" /\ td_pc' = "done") =>
         /\ requeue_list = <<>>
         /\ next = <<>>
         /\ bio[KW] = NoBio
         /\ \A b \in SeqToSet(td_snapshot) : bi_status[b] = "BLK_STS_IOERR"
         /\ \A b \in Bios : Places(b) = 1]_vars

\* remove_disk was called with two bios on the list and its flush has
\* returned
C10_Witness ==
    /\ td_pc = "td_wait"
    /\ flush_wait = "done"
    /\ Len(td_snapshot) = 2

\* bio b is part of a request on the queue of a path
InFlight(b) == \E r \in rqs : b \in SeqToSet(r.bios)

\* C11: once nvme_mpath_remove_disk has marked the head's queue dying, no
\* bio handed to the head's device reaches a path: no routing thread is about
\* to dispatch, no nvme_find_path call is made, no bio joins a request on a
\* path, and a bio submitted or resubmitted by the final pass is ended with
\* BLK_STS_IOERR on the spot.
C11_NoRouteAfterTeardown ==
    /\ [](qstate # "up" =>
            \A t \in RouteThreads : pc[t] # "mr_dispatch")
    /\ [][qstate # "up" =>
            /\ \A t \in RouteThreads : ~Selects(t)
            /\ \A b \in Bios : InFlight(b)' => InFlight(b)
            /\ \A b \in Bios :
                  (b \in unsent /\ b \notin unsent') =>
                      bi_status'[b] = "BLK_STS_IOERR"
            /\ (pc[KW] = "rw_loop" /\ next # <<>> /\ next' # next) =>
                  /\ bi_status'[Head(next)] = "BLK_STS_IOERR"
                  /\ bio'[KW] = NoBio]_vars

\* the queue is dying and the final pass has had its first resubmission
\* rejected while the second bio is still on its private list
C11_Witness ==
    /\ qstate = "dying"
    /\ Len(td_snapshot) = 2
    /\ pc[KW] = "rw_loop"
    /\ Len(next) = 1
    /\ bi_status[td_snapshot[1]] = "BLK_STS_IOERR"

\* bio b has been ended with an error
Errored(b) == bi_status[b] \notin {"none", "BLK_STS_OK"}

\* what a bio ends with when its request completes with a status of the
\* classification table
UnretryableEnds ==
    {nvme_error_status(st) : st \in {c \in Statuses : ListedUnretryable(c)}}

\* C12: the caller of a bio sees an error only when a request carrying the
\* bio completed with a status the classification table lists as
\* unretryable, or when the bio was routed while head->list was empty (or
\* handed in after remove_disk, with no path left); the branch that fails a
\* bio is only taken on an empty head->list, and a request that is failed
\* over ends no bio with an error.
C12_ErrorOnlyWhenUnretryable ==
    [][/\ \A b \in Bios :
            (~Errored(b) /\ Errored(b)') =>
                \/ /\ InFlight(b)
                   /\ ~InFlight(b)'
                   /\ fo_req' = fo_req
                   /\ bi_status'[b] \in UnretryableEnds
                \/ /\ \E t \in RouteThreads : bio[t] = b /\ pc[t] = "mr_fail"
                   /\ bi_status'[b] = "BLK_STS_IOERR"
                \/ /\ qstate # "up"
                   /\ list = <<>>
                   /\ bi_status'[b] = "BLK_STS_IOERR"
       /\ \A t \in RouteThreads :
            (Selects(t) /\ pc'[t] = "mr_fail") => list = <<>>
       /\ (fo_pc # fo_pc') =>
            \A b \in Bios : Errored(b)' => Errored(b)]_vars

\* one bio has gone back to its caller with the guard-check error while a
\* path error of the other is being absorbed by a failover
C12_Witness ==
    /\ bi_status[1] = "BLK_STS_PROTECTION"
    /\ fo_pc = "fo_end"
    /\ fo_req.status = NVME_SC_ABORT_REQ
    /\ fo_req.stolen = <<2>>

\* the kick of a controller runs its loop in this step
Kicks == kick_pc # NoPath /\ kick_pc' = NoPath

\* C13 as stated: a kick of a controller schedules the work of every head
\* of the subsystem that has a disk, and of no head without a disk.
C13_KickAllHeadsOfSubsystem ==
    [][Kicks =>
         \A h \in Heads :
             /\ head_disk[h] => head_work'[h]
             /\ ~head_disk[h] => head_work'[h] = head_work[h]]_vars

\* C13 amended: a kick of a controller schedules the work of every head
\* that has a namespace on that controller and has a disk; the work of a
\* head without a disk, or without a namespace on that controller, is left
\* as it was.
C13_KickHeadsOfCtrl ==
    [][Kicks =>
         \A h \in Heads :
             /\ (h \in ctrl_namespaces[kick_pc] /\ head_disk[h]) =>
                    head_work'[h]
             /\ ~(h \in ctrl_namespaces[kick_pc] /\ head_disk[h]) =>
                    head_work'[h] = head_work[h]]_vars

\* controller 1 has namespaces of both heads, head 1 has a disk and got its
\* work scheduled, head 2 has no disk and did not
C13_Witness ==
    /\ ctrl_namespaces[1] = Heads
    /\ head_disk[1] /\ ~head_disk[2]
    /\ head_work[1] /\ ~head_work[2]
    /\ kick_pc = NoPath

\* a call of nvme_find_path, of nvme_ns_head_poll, is made in this step
SelectStep == sel_seq' # sel_seq
PollStep == poll_seq' # poll_seq

\* C14: nvme_find_path and nvme_ns_head_poll use the cached path only if it
\* is, when they check it, on head->list and its controller is LIVE: a path
\* returned from the cache, and a path poll_fn is called on, is a sibling
\* with a LIVE controller.
C14_CacheRevalidated ==
    [][/\ (SelectStep /\ sel_kind' = "cache") =>
            /\ ctrl_state[sel_ns'] = "LIVE"
            /\ sel_ns' \in SeqToSet(list)
       /\ (PollStep /\ poll_ns' # NoPath) =>
            /\ ctrl_state[poll_ns'] = "LIVE"
            /\ poll_ns' \in SeqToSet(list)]_vars

\* C15: head->requeue_lock is held for list manipulation only: a routing
\* thread holds it only at its bio_list_add, the worker only at its
\* bio_list_get (or at the bio_list_add of a resubmission), the completion
\* context only at blk_steal_bios; the lock is not held by the thread that
\* selects, dispatches, resubmits or ends a request, and nvme_find_path and
\* the dispatch branch leave the lock alone.
C15_LockOnlyForList ==
    /\ [](/\ \A t \in Subs : requeue_lock = t => pc[t] = "mr_add"
          /\ requeue_lock = KW => pc[KW] \in {"rw_get", "mr_add"}
          /\ requeue_lock = FoThread => fo_pc = "fo_steal")
    /\ [][/\ \A t \in RouteThreads :
                (Selects(t) \/ (pc[t] = "mr_dispatch" /\ pc'[t] # pc[t])) =>
                    /\ requeue_lock # t
                    /\ requeue_lock' = requeue_lock
          /\ (pc[KW] = "rw_loop" /\ next' # next) =>
                    /\ requeue_lock # KW
                    /\ requeue_lock' = requeue_lock
          /\ (fo_pc = "fo_end" /\ fo_pc' # fo_pc) =>
                    /\ requeue_lock # FoThread
                    /\ requeue_lock' = requeue_lock]_vars

\* the completion context holds the lock for its steal while a caller, whose
\* nvme_find_path hit the cache, is about to dispatch
C15_Witness ==
    /\ requeue_lock = FoThread
    /\ \E t \in Subs : pc[t] = "mr_dispatch" /\ find_kind[t] = "cache"

\* the cached path is set and its controller is LIVE: the next
\* nvme_find_path takes it from the cache
CacheHit == current_path # NoPath /\ ctrl_state[current_path] = "LIVE"

\* C16: a call of nvme_find_path changes nothing but head->current_path:
\* head->list, every controller's state and head->requeue_list are the same
\* after the call, and so is head->current_path when the call was served
\* from the cache.
C16_SelectFrame ==
    [][\A t \in RouteThreads :
         Selects(t) =>
            /\ list' = list
            /\ ctrl_state' = ctrl_state
            /\ requeue_list' = requeue_list
            /\ CacheHit => (current_path' = current_path
                             /\ ns'[t] = current_path)]_vars

\* a call was served from the cache of the second path while the first
\* path is LIVE as well and a bio waits on the requeue list
C16_Witness ==
    /\ list = <<1, 2>>
    /\ ctrl_state[1] = "LIVE"
    /\ current_path = 2
    /\ requeue_list # <<>>
    /\ \E t \in RouteThreads : find_kind[t] = "cache" /\ ns[t] = 2

\* the cached path is set and its controller is not LIVE
CacheStale == current_path # NoPath /\ ctrl_state[current_path] # "LIVE"

\* C17 as stated: after a call of nvme_find_path that finds the controller
\* of the cached path not LIVE, head->current_path no longer holds that
\* path: it holds the path the call returned, or NULL when it returned none.
C17_CacheInvalidated ==
    [][(SelectStep /\ CacheStale) =>
          /\ current_path' # current_path
          /\ current_path' = sel_ns']_vars

\* C17 amended: a call of nvme_find_path that finds the controller of the
\* cached path not LIVE never returns that path; when a sibling is LIVE,
\* head->current_path is overwritten with the path returned; when none is,
\* the call returns NULL and head->current_path keeps the stale path.
C17_CacheOverwrittenWhenFound ==
    [][(SelectStep /\ CacheStale) =>
          /\ sel_ns' # current_path
          /\ sel_ns' # NoPath =>
                /\ current_path' = sel_ns'
                /\ ctrl_state[sel_ns'] = "LIVE"
          /\ sel_ns' = NoPath =>
                /\ current_path' = current_path
                /\ \A p \in SeqToSet(list) : ctrl_state[p] # "LIVE"]_vars

\* a call found the cached path 1 down and no sibling LIVE: it returned
\* NULL and path 1 is still cached
C17_Witness ==
    /\ sel_kind = "scan_stale"
    /\ sel_ns = NoPath
    /\ current_path = 1
    /\ list = <<1, 2>>

\* path p is the first sibling, in the order of head->list, whose controller
\* is LIVE
FirstLiveInOrder(p) ==
    \E i \in 1..Len(list) :
        /\ list[i] = p
        /\ ctrl_state[p] = "LIVE"
        /\ \A j \in 1..(i - 1) : ctrl_state[list[j]] # "LIVE"

\* C18: when head->current_path is NULL or its controller is not LIVE,
\* nvme_find_path returns the first sibling in list order whose controller
\* is LIVE (NULL if there is none) and publishes exactly that sibling in
\* head->current_path, so that a call made right after it, in the state it
\* left, returns the same path from the cache.
C18_FirstLiveInstalled ==
    [][(SelectStep /\ ~CacheHit) =>
          /\ sel_kind' \in {"scan_null", "scan_stale"}
          /\ sel_ns' # NoPath =>
                /\ FirstLiveInOrder(sel_ns')
                /\ current_path' = sel_ns'
                /\ nvme_find_path' =
                      [ns |-> sel_ns', cur |-> sel_ns', kind |-> "cache"]
          /\ sel_ns' = NoPath =>
                \A p \in SeqToSet(list) : ctrl_state[p] # "LIVE"]_vars

\* with the list in the order [2, 1] and both controllers LIVE, a call on
\* the empty cache returned path 2 and cached it
C18_Witness ==
    /\ sel_kind = "scan_null"
    /\ list = <<2, 1>>
    /\ ctrl_state[1] = "LIVE"
    /\ sel_ns = 2
    /\ current_path = 2

\* the worker resubmits the head of its private list in this step
Resubmits == pc[KW] = "rw_loop" /\ next # <<>> /\ next' = Tail(next)

\* C19: a bio resubmitted by nvme_requeue_work has bi_disk reset to the
\* head's disk and, unless the dying queue ends it, goes through
\* nvme_ns_head_make_request and nvme_find_path again: with no LIVE sibling
\* it goes back on head->requeue_list when head->list is not empty and is
\* failed with BLK_STS_IOERR when head->list is empty; it is dispatched only
\* to the path that call returned.
C19_ResubmitReselects ==
    [][/\ Resubmits =>
            /\ bi_disk'[Head(next)] = HeadDisk
            /\ qstate = "up" =>
                  /\ Selects(KW)
                  /\ bio'[KW] = Head(next)
                  /\ (list # <<>> /\ NoLiveSibling) => pc'[KW] = "mr_lock"
                  /\ list = <<>> => pc'[KW] = "mr_fail"
            /\ qstate # "up" =>
                  bi_status'[Head(next)] = "BLK_STS_IOERR"
       /\ (pc[KW] = "mr_dispatch" /\ pc'[KW] # pc[KW]) =>
            /\ find_kind[KW] # "none"
            /\ bi_disk'[bio[KW]] = ns[KW]
       /\ (pc[KW] = "mr_add" /\ pc'[KW] # pc[KW]) =>
            requeue_list' = Append(requeue_list, bio[KW])
       /\ (pc[KW] = "mr_fail" /\ pc'[KW] # pc[KW]) =>
            bi_status'[bio[KW]] = "BLK_STS_IOERR"]_vars

\* bio b has been moved to head->requeue_list by the blk_steal_bios of the
\* running nvme_failover_req and is still there
Detached(b) ==
    /\ fo_pc = "fo_end"
    /\ b \in SeqToSet(fo_req.stolen)
    /\ b \in SeqToSet(requeue_list)

\* bio b is on the private list of a pass of nvme_requeue_work
Taken(b) == b \in SeqToSet(next)

\* C20: nvme_failover_req schedules the requeue work only after the bios
\* are on head->requeue_list, and with the worker run fairly every bio it
\* moved there is eventually taken by a pass of nvme_requeue_work and then
\* resubmitted, also when a pass that has done its swap is running.
C20_FailoverDrained ==
    /\ [][(fo_pc = "fo_kick" /\ fo_pc' # fo_pc) =>
             /\ fo_req.bios = <<>>
             /\ work_pending']_vars
    /\ \A b \in Bios : Detached(b) ~> Taken(b)
    /\ \A b \in Bios :
          Taken(b) ~> (~Taken(b) /\ b \notin SeqToSet(requeue_list))

\* a failover has moved bio 2 to the requeue list while a pass that took
\* bio 1 at its swap is still running
C20_Witness ==
    /\ Detached(2)
    /\ pc[KW] = "rw_loop"
    /\ swapped = <<1>>
    /\ requeue_list = <<2>>
    /\ ~work_pending

====
